---------------------------- MODULE Spec2Model ----------------------------
(***************************************************************************)
(* Ingestion-and-retrieval pipeline of the local RAG server.               *)
(*                                                                         *)
(*   server/ingest.py       _chunk_text, Ingestor                          *)
(*   server/simple_store.py _cosine_distance, SimpleStore                  *)
(*   server/vector_store.py ChromaStore (dispatch to SimpleStore / chroma) *)
(*   server/retrieval.py    _build_context, Retriever.query                *)
(*   server/app.py          POST /ingest, POST /query                      *)
(*                                                                         *)
(* Text is a TLA+ string; distances and similarities are kept exactly, in  *)
(* hundredths (cosine distance 0.40 is 40), over vectors of integral norm. *)
(***************************************************************************)
EXTENDS Integers, Sequences, FiniteSets, TLC

VARIABLES
    use_simple,   \* ChromaStore._use_simple (not _HAS_CHROMA), fixed at import
    _docs,        \* SimpleStore._docs / docs.jsonl: the appended records, in order
    collection,   \* the chroma collection: id -> record
    cfg,          \* Settings() as read from the environment at import
    content,      \* the PDF files under PDF_SOURCE_DIR: absolute path -> bytes
    edits,        \* how many times a file was rewritten on disk so far
    index_file,   \* data/ingest_index.json as it is on disk
    req,          \* the POST /ingest requests, numbered as they arrive: id -> frame
    running,      \* the request the event loop is executing (0: loop is free)
    last_done,    \* what the run that returned most recently did (for the properties)
    qres,         \* what Retriever.query answers, until the caller has taken it
    bus,          \* the EventBus of app.py and the /events/ingest streams on it
    chunking      \* one call of _chunk_text: its arguments and what it returned

vars == <<use_simple, _docs, collection, cfg, content, edits, index_file, req,
          running, last_done, qres, bus, chunking>>

None == "None"

--------------------------------------------------------------------------
(* Sequence helpers *)

Count(s, x) == Cardinality({i \in 1..Len(s) : s[i] = x})

Range(s) == {s[i] : i \in 1..Len(s)}

Min(a, b) == IF a <= b THEN a ELSE b

Max(a, b) == IF a >= b THEN a ELSE b

\* s[:n]
Prefix(s, n) == SubSeq(s, 1, Min(n, Len(s)))

\* s[-n:] for n > 0
Suffix(s, n) == SubSeq(s, Max(1, Len(s) - n + 1), Len(s))

--------------------------------------------------------------------------
(* server/ingest.py: _chunk_text *)

IsSpace(c) == c \in {" "}

IsSentenceEnd(c) == c \in {".", "!", "?"}

CharAt(s, i) == SubSeq(s, i, i)

RECURSIVE LStrip(_)
LStrip(s) ==
    IF Len(s) > 0 /\ IsSpace(CharAt(s, 1)) THEN LStrip(SubSeq(s, 2, Len(s))) ELSE s

RECURSIVE RStrip(_)
RStrip(s) ==
    IF Len(s) > 0 /\ IsSpace(CharAt(s, Len(s))) THEN RStrip(SubSeq(s, 1, Len(s) - 1)) ELSE s

\* str.strip()
Strip(s) == RStrip(LStrip(s))

\* re.split(r"(?<=[.!?])\s+", text): cut at every run of whitespace that
\* directly follows a sentence-ending character; the run is dropped.
RECURSIVE SplitFrom(_, _)
SplitFrom(rest, cur) ==
    IF Len(rest) = 0 THEN <<cur>>
    ELSE IF Len(cur) > 0 /\ IsSentenceEnd(CharAt(cur, Len(cur))) /\ IsSpace(CharAt(rest, 1))
         THEN <<cur>> \o SplitFrom(LStrip(rest), "")
         ELSE SplitFrom(SubSeq(rest, 2, Len(rest)), cur \o CharAt(rest, 1))

SentenceSplit(text) == SplitFrom(text, "")

\* " ".join(parts)
RECURSIVE JoinSpace(_)
JoinSpace(parts) ==
    IF Len(parts) = 0 THEN ""
    ELSE IF Len(parts) = 1 THEN parts[1]
    ELSE parts[1] \o " " \o JoinSpace(Tail(parts))

\* `if current: chunks.append(" ".join(current).strip())` (lines 50-51, 60-61)
Closed(chunks, current) ==
    IF Len(current) > 0 THEN Append(chunks, Strip(JoinSpace(current))) ELSE chunks

\* Faulty variant: the chunk after a closed one starts from the carry alone
Seed_carry(chunks, sent, overlap) ==
    IF Len(chunks) > 0 /\ overlap > 0
    THEN <<Suffix(chunks[Len(chunks)], overlap)>>
    ELSE <<sent>>

\* The parts a new chunk starts from (lines 53-59): the carry of the chunk
\* closed last, when there is one and overlap > 0, and the sentence
Seed(chunks, sent, overlap) ==
    IF Len(chunks) > 0 /\ overlap > 0
    THEN <<Suffix(chunks[Len(chunks)], overlap), sent>>
    ELSE <<sent>>

\* The sentence loop of _chunk_text (lines 44-59); st = [chunks, current, current_len].
RECURSIVE Pack(_, _, _, _)
Pack(sentences, st, chunk_size, overlap) ==
    IF Len(sentences) = 0 THEN st
    ELSE
      LET sent == Head(sentences)
          sent_len == Len(sent)
      IN  IF st.current_len + sent_len + 1 <= chunk_size
          THEN Pack(Tail(sentences),
                    [st EXCEPT !.current = Append(@, sent),
                               !.current_len = @ + sent_len + 1],
                    chunk_size, overlap)
          ELSE
            LET chunks == Closed(st.chunks, st.current)
                carried == Len(chunks) > 0 /\ overlap > 0
                carry == Suffix(chunks[Len(chunks)], overlap)
            IN  Pack(Tail(sentences),
                     [chunks |-> chunks, current |-> Seed(chunks, sent, overlap),
                      current_len |-> IF carried THEN Len(carry) + 1 + sent_len
                                      ELSE sent_len],
                     chunk_size, overlap)

\* range(0, len(text), chunk_size - overlap) -> text[i : i + chunk_size]
RECURSIVE FixedSlices(_, _, _, _)
FixedSlices(text, i, chunk_size, step) ==
    IF step <= 0 \/ i >= Len(text) THEN <<>>
    ELSE <<SubSeq(text, i + 1, Min(i + chunk_size, Len(text)))>>
         \o FixedSlices(text, i + step, chunk_size, step)

_chunk_text(raw, chunk_size, overlap) ==
    LET text == Strip(raw)
    IN  IF Len(text) = 0 THEN <<>>
        ELSE
          LET st == Pack(SentenceSplit(text),
                         [chunks |-> <<>>, current |-> <<>>, current_len |-> 0],
                         chunk_size, overlap)
              chunks == Closed(st.chunks, st.current)
              final == IF Len(chunks) = 0
                       THEN FixedSlices(text, 0, chunk_size, chunk_size - overlap)
                       ELSE chunks
          IN  SelectSeq(final, LAMBDA c : Len(c) > 0)

\* The defaults of _chunk_text, which ingest_paths uses (line 223).
DefaultChunkSize == 1000

DefaultOverlap == 200

--------------------------------------------------------------------------
(* server/clients/lmstudio.py: the embedding model, a fixed function of the
   text.  Vectors have integral norm, so that cosine distances are exact.   *)

VectorList == << <<0, 0>>, <<0, 1>>, <<3, 4>>, <<4, 3>>, <<1, 0>> >>

EmbeddingOf(text) == VectorList[(Len(text) % Len(VectorList)) + 1]

\* What the embeddings endpoint can do with a batch: answer one vector per
\* text, answer with fewer items in "data", or fail (raise_for_status).
EmbedOutcomes == {"ok", "short", "raise"}

\* LMStudioEmbeddings.embed: [item["embedding"] for item in data.get("data", [])]
LMStudioEmbeddings_embed(texts, outcome) ==
    IF outcome = "raise" THEN [raised |-> TRUE, value |-> <<>>]
    ELSE IF outcome = "short"
         THEN [raised |-> FALSE,
               value |-> [i \in 1..(Len(texts) - 1) |-> EmbeddingOf(texts[i])]]
         ELSE [raised |-> FALSE,
               value |-> [i \in 1..Len(texts) |-> EmbeddingOf(texts[i])]]

--------------------------------------------------------------------------
(* server/simple_store.py *)

RECURSIVE DotFrom(_, _, _)
DotFrom(a, b, i) ==
    IF i > Min(Len(a), Len(b)) THEN 0 ELSE a[i] * b[i] + DotFrom(a, b, i + 1)

\* sum of x*y over zip(a, b)
Dot(a, b) == DotFrom(a, b, 1)

\* math.sqrt on the squared norms that occur (all perfect squares)
Sqrt(n) == CHOOSE k \in 0..n : k * k = n

\* _cosine_distance, in hundredths
_cosine_distance(a, b) ==
    LET num == Dot(a, b)
        da == Dot(a, SubSeq(a, 1, Min(Len(a), Len(b))))
        db == Dot(SubSeq(b, 1, Min(Len(a), Len(b))), b)
    IN  IF da = 0 \/ db = 0 THEN 100
        ELSE 100 - ((100 * num) \div (Sqrt(da) * Sqrt(db)))

\* SimpleStore.upsert: one _append per id, in order.  Building record i reads
\* documents[i], metadatas[i] and embeddings[i] (IndexError when a list is
\* too short); fail_at > 0 is the record whose file write raises.
\* Returns the records after the call and whether it raised.
RECURSIVE SimpleAppendFrom(_, _, _, _, _, _, _)
SimpleAppendFrom(docs, ids, documents, metadatas, embeddings, fail_at, i) ==
    IF i > Len(ids) THEN [docs |-> docs, raised |-> FALSE]
    ELSE IF i > Len(documents) \/ i > Len(metadatas) \/ i > Len(embeddings) \/ i = fail_at
         THEN [docs |-> docs, raised |-> TRUE]
         ELSE SimpleAppendFrom(
                  Append(docs, [id |-> ids[i], document |-> documents[i],
                                metadata |-> metadatas[i], embedding |-> embeddings[i]]),
                  ids, documents, metadatas, embeddings, fail_at, i + 1)

SimpleStore_upsert(docs, ids, documents, metadatas, embeddings, fail_at) ==
    SimpleAppendFrom(docs, ids, documents, metadatas, embeddings, fail_at, 1)

\* Faulty variant: the scored records stay in the order of the store
InsertScored_unsorted(sorted, x) == Append(sorted, x)

\* scored.sort(key=lambda x: x[0]): a stable sort by distance
RECURSIVE InsertScored(_, _)
InsertScored(sorted, x) ==
    IF Len(sorted) = 0 THEN <<x>>
    ELSE IF x.d < Head(sorted).d THEN <<x>> \o sorted
    ELSE <<Head(sorted)>> \o InsertScored(Tail(sorted), x)

RECURSIVE SortScored(_)
SortScored(scored) ==
    IF Len(scored) = 0 THEN <<>>
    ELSE InsertScored(SortScored(SubSeq(scored, 1, Len(scored) - 1)), scored[Len(scored)])

\* SimpleStore.query (raised: query_embeddings[0] on an empty list)
SimpleStore_query(docs, query_embeddings, n_results) ==
    IF Len(docs) = 0
    THEN [raised |-> FALSE,
          ids |-> <<>>, distances |-> <<>>, documents |-> <<>>, metadatas |-> <<>>]
    ELSE IF Len(query_embeddings) = 0
    THEN [raised |-> TRUE,
          ids |-> <<>>, distances |-> <<>>, documents |-> <<>>, metadatas |-> <<>>]
    ELSE
      LET q == query_embeddings[1]
          scored == [i \in 1..Len(docs) |->
                        [d |-> _cosine_distance(q, docs[i].embedding), rec |-> docs[i]]]
          top == Prefix(SortScored(scored), n_results)
      IN  [raised    |-> FALSE,
           ids       |-> [i \in 1..Len(top) |-> top[i].rec.id],
           distances |-> [i \in 1..Len(top) |-> top[i].d],
           documents |-> [i \in 1..Len(top) |-> top[i].rec.document],
           metadatas |-> [i \in 1..Len(top) |-> top[i].rec.metadata]]

\* SimpleStore.count
SimpleStore_count(docs) == Len(docs)

--------------------------------------------------------------------------
(* server/vector_store.py.  The chroma collection is kept as the sequence of
   its records in insertion order; chroma's upsert validates the whole batch
   (equal lengths, no id twice) before it writes, and then writes it whole.  *)

IdsOf(recs) == {recs[i].id : i \in 1..Len(recs)}

PutRecord(recs, rec) ==
    IF rec.id \in IdsOf(recs)
    THEN [i \in 1..Len(recs) |-> IF recs[i].id = rec.id THEN rec ELSE recs[i]]
    ELSE Append(recs, rec)

RECURSIVE PutAllFrom(_, _, _, _, _, _)
PutAllFrom(recs, ids, documents, metadatas, embeddings, i) ==
    IF i > Len(ids) THEN recs
    ELSE PutAllFrom(
             PutRecord(recs, [id |-> ids[i], document |-> documents[i],
                              metadata |-> metadatas[i], embedding |-> embeddings[i]]),
             ids, documents, metadatas, embeddings, i + 1)

Collection_upsert(recs, ids, documents, metadatas, embeddings, fail_at) ==
    IF \/ Len(documents) # Len(ids) \/ Len(metadatas) # Len(ids)
       \/ Len(embeddings) # Len(ids)
       \/ Cardinality(Range(ids)) # Len(ids)
       \/ fail_at > 0
    THEN [docs |-> recs, raised |-> TRUE]
    ELSE [docs |-> PutAllFrom(recs, ids, documents, metadatas, embeddings, 1),
          raised |-> FALSE]

\* The records the store object holds, whichever backend it uses.
StoreRecords == IF use_simple THEN _docs ELSE collection

\* ChromaStore.upsert
ChromaStore_upsert(ids, documents, metadatas, embeddings, fail_at) ==
    IF use_simple
    THEN SimpleStore_upsert(_docs, ids, documents, metadatas, embeddings, fail_at)
    ELSE Collection_upsert(collection, ids, documents, metadatas, embeddings, fail_at)

\* collection.query: the n nearest records by cosine distance; chroma refuses
\* an empty list of query embeddings
Collection_query(recs, query_embeddings, n_results) ==
    IF Len(query_embeddings) = 0
    THEN [raised |-> TRUE,
          ids |-> <<>>, distances |-> <<>>, documents |-> <<>>, metadatas |-> <<>>]
    ELSE SimpleStore_query(recs, query_embeddings, n_results)

\* ChromaStore.query
ChromaStore_query(query_embeddings, n_results) ==
    IF use_simple THEN SimpleStore_query(_docs, query_embeddings, n_results)
    ELSE Collection_query(collection, query_embeddings, n_results)

\* ChromaStore.count
ChromaStore_count == IF use_simple THEN SimpleStore_count(_docs) ELSE Len(collection)

\* The store after an upsert that returned `out`
StoreBecomes(out) ==
    IF use_simple THEN _docs' = out.docs /\ UNCHANGED collection
    ELSE collection' = out.docs /\ UNCHANGED _docs

--------------------------------------------------------------------------
(* server/retrieval.py *)

\* _build_context: one "[source_file, p page_number]" header and chunk per
\* zip(chunks, metadatas) pair, in order
_build_context(chunks, metadatas) ==
    [i \in 1..Min(Len(chunks), Len(metadatas)) |->
        [source_file |-> metadatas[i].source_file,
         page_number |-> metadatas[i].page_number,
         chunk |-> chunks[i]]]

\* sim = 1 - float(d)
Similarity(d) == 100 - d

\* Faulty variant: a record exactly at the threshold is dropped
Filtered_strict(distances, similarity_threshold) ==
    SelectSeq([i \in 1..Len(distances) |-> i],
              LAMBDA i : Similarity(distances[i]) > similarity_threshold)

\* the positions kept by the threshold loop (lines 41-45)
Filtered(distances, similarity_threshold) ==
    SelectSeq([i \in 1..Len(distances) |-> i],
              LAMBDA i : Similarity(distances[i]) >= similarity_threshold)

Pick(s, idx) == [k \in 1..Len(idx) |-> s[idx[k]]]

\* Faulty variant: nothing is retained when no record meets the threshold
Retained_strict(s, filtered) == Pick(s, filtered)

\* `if filtered:` (lines 46-48): the kept positions, or everything when none
Retained(s, filtered) == IF Len(filtered) > 0 THEN Pick(s, filtered) ELSE s

SourceTag(m) == [source |-> m.source_file, page |-> m.page_number]

\* sources_used: the tags in order, first occurrence only
RECURSIVE DedupTags(_, _)
DedupTags(metas, acc) ==
    IF Len(metas) = 0 THEN acc
    ELSE DedupTags(Tail(metas),
                   IF SourceTag(Head(metas)) \in Range(acc) THEN acc
                   ELSE Append(acc, SourceTag(Head(metas))))

\* metas[: min(4, len(metas))] and docs[i][:200]
MaxCitations == 4

QuoteChars == 200

\* What the chat model can do: answer, answer with no choice (""), or fail
ChatOutcomes == {" grounded answer [a.pdf, p 1] ", "", "raise"}

\* Retriever.query from the store's answer on (lines 34-75): filter, context,
\* chat, sources, citations.  `answer` is what the chat model said.
Retriever_assemble(results, similarity_threshold, answer) ==
    LET filtered == Filtered(results.distances, similarity_threshold)
        docs  == Retained(results.documents, filtered)
        metas == Retained(results.metadatas, filtered)
        cited == Prefix(metas, Min(MaxCitations, Len(metas)))
    IN  [status |-> "ok",
         answer |-> Strip(answer),
         context |-> _build_context(docs, metas),
         citations |-> [i \in 1..Len(cited) |->
                           [source |-> cited[i].source_file, page |-> cited[i].page_number,
                            quote |-> Prefix(docs[i], QuoteChars), confidence |-> "0.5"]],
         sources_used |-> DedupTags(metas, <<>>),
         chunks_retrieved |-> Len(metas)]

--------------------------------------------------------------------------
(* The environment of an ingestion run: settings, files, the OCR model *)

\* Settings.PDF_SOURCE_DIR and the names used for files in and outside it
BaseDir == "training_data"

DirNames == {"a.pdf", "b.pdf"}

\* os.path.join(base_dir, p)
JoinPath(base, name) == base \o "/" \o name

\* os.path.relpath(file_path, base_dir) for a path under base_dir
RelPath(path, base) == SubSeq(path, Len(base) + 2, Len(path))

\* os.path.basename
RECURSIVE Basename(_)
Basename(path) ==
    IF \E i \in 1..Len(path) : CharAt(path, i) = "/"
    THEN Basename(SubSeq(path, 2, Len(path)))
    ELSE path

Paths == {JoinPath(BaseDir, n) : n \in DirNames}

\* os.walk(base_dir) lists the directory in this order
WalkOrder == <<"a.pdf", "b.pdf">>

\* The `paths` a request can carry (None or empty: the whole directory);
\* "c.pdf" names no file.
PathArgs == {<<>>, <<"a.pdf">>, <<"c.pdf", "b.pdf">>}

\* What a file on disk can be: one of these byte strings, or not readable.
Unreadable == "unreadable"

PdfBytes == {"%PDF scan", "%PDF text+blank+text", "not a pdf"}

FileStates == PdfBytes \cup {Unreadable}

\* fitz.open(stream=file_bytes): the native text of each page (not ok when
\* the bytes are no PDF and fitz.open raises)
PdfPages(bytes) ==
    CASE bytes = "%PDF scan"       -> [ok |-> TRUE, pages |-> <<"">>]
      [] bytes = "%PDF text+blank+text"
                                   -> [ok |-> TRUE, pages |-> <<" a.  b ", " ", "b">>]
      [] bytes = "%PDF text"       -> [ok |-> TRUE, pages |-> <<"c.">>]
      [] OTHER                     -> [ok |-> FALSE, pages |-> <<>>]

\* _checksum_bytes: sha256 is taken to be collision-free
_checksum_bytes(bytes) == "sha256(" \o bytes \o ")"

\* Settings() with nothing set in the environment: what the OCR policy reads
DefaultSettings ==
    [VLM_PROVIDER |-> "openai", OPENAI_API_KEY |-> None,
     OCR_VLM_ENABLED |-> TRUE, OCR_LOW_TEXT_ENABLED |-> TRUE]

OCR_LOW_TEXT_THRESHOLD_CHARS == 200

\* What the OCR model can answer: a transcription (possibly empty), or an
\* exception of the client
OcrOutcomes == {"", " ", " c ", "raise"}

\* OpenAIVLM.ocr_image: "" without a client (no API key)
OpenAIVLM_ocr_image(answer) == IF cfg.OPENAI_API_KEY = None THEN "" ELSE answer

--------------------------------------------------------------------------
(* The persisted checksum index, data/ingest_index.json *)

NoEntries == [p \in Paths |-> None]

IndexMissing == [state |-> "missing", entries |-> NoEntries]

IndexCorrupt == [state |-> "corrupt", entries |-> NoEntries]

IndexWritten(entries) == [state |-> "ok", entries |-> entries]

\* The file holds JSON that is no object: the text [], which json.load
\* reads as an empty list
JsonList == <<>>

IndexNotMapping == [state |-> "ok", entries |-> JsonList]

\* Whether self._index has the dict methods, .get among them
IsDict(index) == DOMAIN index = Paths

LookupFailed == "'list' object has no attribute 'get'"

\* Faulty variant: the persisted index is never read back
_load_index_empty(file) == NoEntries

\* Ingestor._load_index
_load_index(file) == IF file.state = "ok" THEN file.entries ELSE NoEntries

\* What open(index_path, "w") + json.dump can do
SaveOutcomes == {"ok", "open_fails", "write_fails"}

\* Ingestor._save_index: the file after the call
_save_index(file, entries, outcome) ==
    CASE outcome = "ok"          -> IndexWritten(entries)
      [] outcome = "open_fails"  -> file
      [] outcome = "write_fails" -> IndexCorrupt

--------------------------------------------------------------------------
(* POST /ingest: the frame of one request *)

MaxRuns == 2

MaxEdits == 1

Runs == 1..MaxRuns

\* The summary of a returned run: its targets, whether every target was done
\* or skipped as unchanged with no error, the number of file writes before it
\* began, and whether it overlapped no other run.
NoRun == [valid |-> FALSE, targets |-> {}, clean |-> FALSE, edits0 |-> 0, alone |-> FALSE]

RunSummary(a) ==
    [valid |-> TRUE, targets |-> Range(a.target_files),
     clean |-> (Len(a.errors) = 0 /\ \A i \in 1..Len(a.outcomes) :
                                        a.outcomes[i] \in {"done", "unchanged"}),
     edits0 |-> a.edits0, alone |-> a.alone]

IdleFrame ==
    [pc |-> "idle", force |-> FALSE, status |-> 0, ran |-> FALSE,
     index |-> NoEntries, target_files |-> <<>>, fi |-> 0,
     checksum |-> None, doc |-> <<>>, page_num |-> 0,
     per_page_chunks |-> <<>>, per_page_meta |-> <<>>, embeddings |-> <<>>, ids |-> <<>>,
     exc |-> None,
     files_processed |-> 0, pages_processed |-> 0, chunks_upserted |-> 0,
     errors |-> <<>>, ocr_events |-> <<>>,
     \* what this run handed to EventBus.publish and to ingest_logger.append
     published |-> <<>>, audit |-> <<>>,
     \* bookkeeping of the run, read by the properties only
     outcomes |-> <<>>, embed_calls |-> 0, upsert_calls |-> 0,
     after |-> NoRun, alone |-> TRUE, edits0 |-> 0,
     \* what the OCR call of each page of the current file did
     ocr_answers |-> <<>>]

\* The methods class Ingestor defines, and the fields of IngestResult
IngestorMethods == {"__init__", "_load_index", "_save_index", "ingest_paths"}

IngestResultFields ==
    {"files_processed", "pages_processed", "chunks_upserted", "errors", "ocr_events"}

\* The attributes of the result that the /ingest handler reads (lines 113-123)
SummaryFields ==
    {"files_processed", "files_skipped", "files_found", "pages_processed",
     "chunks_upserted", "errors", "ocr_events", "processed_list", "skipped_list"}

\* ingest_paths, lines 114-125: the target files
ResolveTargets(paths) ==
    IF Len(paths) > 0
    THEN SelectSeq([i \in 1..Len(paths) |-> JoinPath(BaseDir, paths[i])],
                   LAMBDA p : p \in Paths)
    ELSE [i \in 1..Len(WalkOrder) |-> JoinPath(BaseDir, WalkOrder[i])]

Active(q) == req[q].pc \notin {"idle", "done"}

\* Faulty variant: the loop takes the target files last to first
CurrentFile_reversed(a) == a.target_files[Len(a.target_files) + 1 - a.fi]

\* The file the loop of request frame a is at
CurrentFile(a) == a.target_files[a.fi]

\* Leave the current file with `outcome` and go to the next one
NextFile(a, outcome) ==
    [a EXCEPT !.pc = "file", !.fi = @ + 1, !.outcomes = Append(@, outcome),
              !.checksum = None, !.doc = <<>>, !.page_num = 0,
              !.per_page_chunks = <<>>, !.per_page_meta = <<>>,
              !.embeddings = <<>>, !.ids = <<>>, !.exc = None, !.ocr_answers = <<>>]

\* An exception raised inside the try block (caught at line 271)
Raise(a, message) == [a EXCEPT !.pc = "except", !.exc = message]

\* POST /ingest up to and including the start of the run: app.py 99-112,
\* Ingestor.__init__, ingest_paths 105-129
Ingest(r) ==
    /\ running = 0
    /\ req[r].pc = "idle"
    /\ \A q \in Runs : q < r => req[q].pc # "idle"
    /\ \E paths \in PathArgs, force \in BOOLEAN, root_ok \in BOOLEAN :
         LET loaded == _load_index(index_file)
             others == {q \in Runs \ {r} : Active(q)}
         IN  IF ~root_ok
             THEN \* HTTPException(400): PDF_SOURCE_DIR not found
                  /\ req' = [req EXCEPT ![r] = [IdleFrame EXCEPT !.pc = "done", !.status = 400]]
                  /\ UNCHANGED running
             ELSE IF force /\ "clear_index" \notin IngestorMethods
             THEN \* AttributeError: 'Ingestor' object has no attribute 'clear_index'
                  /\ req' = [req EXCEPT ![r] = [IdleFrame EXCEPT !.pc = "done", !.status = 500,
                                                                 !.force = TRUE,
                                                                 !.index = loaded]]
                  /\ UNCHANGED running
             ELSE LET targets == ResolveTargets(paths)
                  IN  /\ req' = [q \in Runs |->
                                   IF q = r
                                   THEN [IdleFrame EXCEPT
                                            !.pc = "file", !.force = force, !.ran = TRUE,
                                            !.index = loaded,
                                            !.target_files = targets, !.fi = 1,
                                            !.published = <<[event |-> "ingest_run_start",
                                                             count_files |-> Len(targets)]>>,
                                            !.after = IF others = {} THEN last_done ELSE NoRun,
                                            !.alone = (others = {}),
                                            !.edits0 = edits]
                                   ELSE IF q \in others THEN [req[q] EXCEPT !.alone = FALSE]
                                   ELSE req[q]]
                      /\ running' = r
    /\ UNCHANGED <<use_simple, _docs, collection, cfg, content, edits, index_file,
                   last_done, qres, bus, chunking>>

\* Top of the file loop, lines 131-160: read, checksum, skip or open
FileBegin(r) ==
    LET a == req[r]
        file_path == CurrentFile(a)
        rel == RelPath(file_path, BaseDir)
        file_bytes == content[file_path]
        checksum == _checksum_bytes(file_bytes)
        opened == PdfPages(file_bytes)
        pages == opened.pages
    IN  /\ running = r
        /\ a.pc = "file"
        /\ a.fi <= Len(a.target_files)
        /\ IF file_bytes = Unreadable
           THEN req' = [req EXCEPT ![r] = Raise(a, "cannot read file")]
           ELSE IF ~IsDict(a.index)
           THEN \* AttributeError at self._index.get (line 135)
                req' = [req EXCEPT ![r] = Raise([a EXCEPT !.checksum = checksum],
                                                LookupFailed)]
           ELSE IF a.index[file_path] = checksum
           THEN req' = [req EXCEPT ![r] =
                           NextFile([a EXCEPT !.published =
                                        Append(@, [event |-> "ingest_file_skipped",
                                                   file |-> rel, reason |-> "unchanged"])],
                                    "unchanged")]
           ELSE IF ~opened.ok
           THEN req' = [req EXCEPT ![r] = Raise([a EXCEPT !.checksum = checksum],
                                                "cannot open document")]
           ELSE req' = [req EXCEPT ![r] =
                           [a EXCEPT !.pc = "page", !.checksum = checksum,
                                     !.doc = pages, !.page_num = 0,
                                     !.per_page_chunks = <<>>, !.per_page_meta = <<>>,
                                     !.audit = Append(@, [event |-> "ingest_file_start",
                                                          file |-> rel, pages |-> Len(pages),
                                                          checksum |-> checksum]),
                                     !.published = Append(@, [event |-> "ingest_file_start",
                                                              file |-> rel,
                                                              pages |-> Len(pages)])]]
        /\ UNCHANGED <<use_simple, _docs, collection, cfg, content, edits, index_file,
                       running, last_done, qres, bus, chunking>>


\* The OCR trigger of a page, lines 166-172
TriggerReason(text) ==
    IF Len(text) = 0 THEN "no_text_layer"
    ELSE IF cfg.OCR_LOW_TEXT_ENABLED /\ Len(text) < OCR_LOW_TEXT_THRESHOLD_CHARS
         THEN "low_text"
         ELSE None

\* Whether line 176 lets the page go to the OCR model
OcrCalled(trigger_reason) ==
    trigger_reason # None /\ cfg.VLM_PROVIDER = "openai" /\ cfg.OCR_VLM_ENABLED

\* The metadata of chunk i (0-based) of a page, lines 227-237
ChunkMeta(rel, page_num, i, checksum, native, trigger_reason, text) ==
    [source_file |-> rel,
     page_number |-> page_num + 1,
     chunk_index |-> i,
     doc_title |-> Basename(rel),
     checksum |-> checksum,
     has_text_layer |-> Len(native) > 0,
     vlm_correction_applied |-> (trigger_reason # None /\ Len(text) > 0),
     vlm_provider |-> IF trigger_reason # None /\ Len(text) > 0 THEN "openai" ELSE None,
     ocr_trigger_reason |-> trigger_reason]

\* The OCR model was not asked (no trigger, no provider, or OCR disabled)
NotCalled == "not called"

\* Faulty variant: the message of a failed OCR call is taken as its text
VlmText_message(called, answer) ==
    IF called THEN (IF answer = "raise" THEN "VLM OCR failed" ELSE answer) ELSE ""

\* vlm_text after lines 175-195: the answer of the OCR model when it was
\* asked and did not raise, "" otherwise
VlmText(called, answer) == IF called /\ answer # "raise" THEN answer ELSE ""

\* Line 197, `if vlm_text.strip():` under `if trigger_reason:`
Applied(trigger_reason, vlm_text) == trigger_reason # None /\ Len(Strip(vlm_text)) > 0

\* Faulty variant: a page without a text layer is never skipped
Skipped_never(trigger_reason, applied) == FALSE

\* Faulty variant: every page whose OCR gave nothing is skipped
Skipped_any(trigger_reason, applied) == trigger_reason # None /\ ~applied

\* Line 208, `elif trigger_reason == "no_text_layer":`, ending in `continue`
Skipped(trigger_reason, applied) == trigger_reason = "no_text_layer" /\ ~applied

\* Faulty variant: the OCR text is never taken
PageText_native(applied, vlm_text, text0) == text0

\* The text handed to _chunk_text (line 198 replaces it by the OCR text)
PageText(applied, vlm_text, text0) == IF applied THEN Strip(vlm_text) ELSE text0

\* One pass of the page loop, lines 161-238, for page a.page_num with the
\* OCR model answering `ocr`: the frame after it.
PageStep(a, ocr) ==
    LET rel == RelPath(CurrentFile(a), BaseDir)
        native == a.doc[a.page_num + 1]
        text0 == Strip(native)
        trigger_reason == TriggerReason(text0)
        called == OcrCalled(trigger_reason)
        vlm_text == VlmText(called, OpenAIVLM_ocr_image(ocr))
        applied == Applied(trigger_reason, vlm_text)
        skipped == Skipped(trigger_reason, applied)
        text == PageText(applied, vlm_text, text0)
        evt == [file |-> rel, page |-> a.page_num + 1, reason |-> trigger_reason,
                provider |-> IF applied THEN "openai" ELSE None, skipped |-> skipped]
        chunks == IF skipped THEN <<>> ELSE _chunk_text(text, DefaultChunkSize, DefaultOverlap)
        metas == [k \in 1..Len(chunks) |->
                     ChunkMeta(rel, a.page_num, k - 1, a.checksum, native, trigger_reason, text)]
        ocr_applied == [event |-> "ocr_applied", file |-> rel, page |-> a.page_num + 1,
                        reason |-> trigger_reason, provider |-> "openai"]
        ocr_skipped == [event |-> "ocr_skipped", file |-> rel, page |-> a.page_num + 1,
                        reason |-> trigger_reason, provider |-> None]
    IN  [a EXCEPT !.page_num = @ + 1,
                  !.ocr_events = IF applied \/ skipped THEN Append(@, evt) ELSE @,
                  !.per_page_chunks = @ \o chunks,
                  !.per_page_meta = @ \o metas,
                  !.published = IF applied THEN Append(@, ocr_applied) ELSE @,
                  !.audit = IF applied THEN Append(@, ocr_applied)
                            ELSE IF skipped THEN Append(@, ocr_skipped)
                            ELSE @,
                  !.ocr_answers = Append(@, IF called THEN OpenAIVLM_ocr_image(ocr)
                                            ELSE NotCalled)]

\* The page loop, one page per step
Page(r) ==
    LET a == req[r]
    IN  /\ running = r
        /\ a.pc = "page"
        /\ a.page_num < Len(a.doc)
        /\ \E ocr \in OcrOutcomes :
             /\ \/ ocr = ""
                \/ /\ OcrCalled(TriggerReason(Strip(a.doc[a.page_num + 1])))
                   /\ cfg.OPENAI_API_KEY # None
             /\ req' = [req EXCEPT ![r] = PageStep(a, ocr)]
        /\ UNCHANGED <<use_simple, _docs, collection, cfg, content, edits, index_file,
                       running, last_done, qres, bus, chunking>>

\* The chunk ids of a batch, lines 244-247: "{source_file}#p{page_number}#c{chunk_index}"
ChunkIds(metas) ==
    [i \in 1..Len(metas) |->
        metas[i].source_file \o "#p" \o ToString(metas[i].page_number)
                             \o "#c" \o ToString(metas[i].chunk_index)]

\* Lines 250-254: the counters, then the index entry of the file
CountAndAdvance(a) ==
    [a EXCEPT !.chunks_upserted = @ + Len(a.per_page_chunks),
              !.pages_processed = @ + Len(a.doc),
              !.files_processed = @ + 1,
              !.index = [@ EXCEPT ![CurrentFile(a)] = a.checksum]]

\* Faulty variant: the file is counted and marked done although it gave no chunk
NoChunks_marked(a) == NextFile(CountAndAdvance(a), "empty")

\* Line 240 with no chunk: nothing is done for the file
NoChunks(a) == NextFile(a, "empty")

\* After the last page, lines 240-242: with chunks, call the embedder and
\* wait for it (the event loop is free meanwhile); with none, the file is over.
PagesDone(r) ==
    LET a == req[r]
    IN  /\ running = r
        /\ a.pc = "page"
        /\ a.page_num = Len(a.doc)
        /\ IF Len(a.per_page_chunks) > 0
           THEN /\ req' = [req EXCEPT ![r] = [a EXCEPT !.pc = "await_embed",
                                                       !.embed_calls = @ + 1]]
                /\ running' = 0
           ELSE /\ req' = [req EXCEPT ![r] = NoChunks(a)]
                /\ UNCHANGED running
        /\ UNCHANGED <<use_simple, _docs, collection, cfg, content, edits, index_file,
                       last_done, qres, bus, chunking>>

\* The embedder answers, lines 242-247
EmbedReturn(r) ==
    LET a == req[r]
    IN  /\ running = 0
        /\ a.pc = "await_embed"
        /\ \E outcome \in EmbedOutcomes :
             LET res == LMStudioEmbeddings_embed(a.per_page_chunks, outcome)
             IN  req' = [req EXCEPT ![r] =
                            IF res.raised THEN Raise(a, "embedding request failed")
                            ELSE [a EXCEPT !.pc = "upsert", !.embeddings = res.value,
                                           !.ids = ChunkIds(a.per_page_meta)]]
        /\ running' = r
        /\ UNCHANGED <<use_simple, _docs, collection, cfg, content, edits, index_file,
                       last_done, qres, bus, chunking>>

\* self.store.upsert(...), line 248
Upsert(r) ==
    LET a == req[r]
    IN  /\ running = r
        /\ a.pc = "upsert"
        /\ \E fail_at \in 0..Len(a.ids) :
             LET out == ChromaStore_upsert(a.ids, a.per_page_chunks, a.per_page_meta,
                                           a.embeddings, fail_at)
                 b == [a EXCEPT !.upsert_calls = @ + 1]
             IN  /\ StoreBecomes(out)
                 /\ req' = [req EXCEPT ![r] =
                               IF out.raised THEN Raise(b, "store upsert failed")
                               ELSE [b EXCEPT !.pc = "commit"]]
        /\ UNCHANGED <<use_simple, cfg, content, edits, index_file, running, last_done,
                       qres, bus, chunking>>

\* Lines 250-270: count, advance the index, save it, report the file done
Commit(r) ==
    LET a == req[r]
        b == CountAndAdvance(a)
        rel == RelPath(CurrentFile(a), BaseDir)
        done == [event |-> "ingest_file_done", file |-> rel,
                 chunks |-> Len(a.per_page_chunks), pages |-> Len(a.doc)]
    IN  /\ running = r
        /\ a.pc = "commit"
        /\ \E outcome \in SaveOutcomes :
             /\ index_file' = _save_index(index_file, b.index, outcome)
             /\ IF outcome = "ok"
                THEN req' = [req EXCEPT ![r] =
                                NextFile([b EXCEPT !.audit = Append(@, done),
                                                   !.published = Append(@, done)],
                                         "done")]
                ELSE req' = [req EXCEPT ![r] = Raise(b, "cannot write index")]
        /\ UNCHANGED <<use_simple, _docs, collection, cfg, content, edits, running,
                       last_done, qres, bus, chunking>>

\* The except block, lines 271-284: the error is kept, logged and published
ErrorRecorded(a) ==
    LET evt == [event |-> "ingest_file_error", file |-> RelPath(CurrentFile(a), BaseDir),
                error |-> a.exc]
    IN  [a EXCEPT !.errors = Append(@, [file |-> CurrentFile(a), error |-> a.exc]),
                  !.audit = Append(@, evt),
                  !.published = Append(@, evt)]

\* Faulty variant: the handler marks the failed file as ingested
OnError_marked(a) ==
    NextFile([ErrorRecorded(a) EXCEPT !.index = [@ EXCEPT ![CurrentFile(a)] = a.checksum]],
             "error")

\* Faulty variant: the handler records the error and leaves the loop
OnError_abort(a) ==
    [NextFile(ErrorRecorded(a), "error") EXCEPT !.fi = Len(a.target_files) + 1]

\* The except block ends the iteration; the for loop takes the next file
OnError(a) == NextFile(ErrorRecorded(a), "error")

Except(r) ==
    LET a == req[r]
    IN  /\ running = r
        /\ a.pc = "except"
        /\ req' = [req EXCEPT ![r] = OnError(a)]
        /\ UNCHANGED <<use_simple, _docs, collection, cfg, content, edits, index_file,
                       running, last_done, qres, bus, chunking>>

\* The IngestResult that ingest_paths returns, lines 305-311
IngestResult(a) ==
    [files_processed |-> a.files_processed, pages_processed |-> a.pages_processed,
     chunks_upserted |-> a.chunks_upserted, errors |-> a.errors,
     ocr_events |-> a.ocr_events]

\* After the loop, lines 286-311: the run summary, and the return
RunDone(r) ==
    LET a == req[r]
        evt == [event |-> "ingest_run_done", files_processed |-> a.files_processed,
                pages_processed |-> a.pages_processed,
                chunks_upserted |-> a.chunks_upserted,
                errors |-> Len(a.errors), ocr_events |-> Len(a.ocr_events)]
    IN  /\ running = r
        /\ a.pc = "file"
        /\ a.fi > Len(a.target_files)
        /\ req' = [req EXCEPT ![r] = [a EXCEPT !.pc = "return",
                                               !.audit = Append(@, evt),
                                               !.published = Append(@, evt)]]
        /\ last_done' = RunSummary(a)
        /\ UNCHANGED <<use_simple, _docs, collection, cfg, content, edits, index_file,
                       running, qres, bus, chunking>>

\* app.py 113-123: the handler reads the summary off the result; the request
\* is over and its frame is gone
Respond(r) ==
    LET a == req[r]
    IN  /\ running = r
        /\ a.pc = "return"
        /\ req' = [req EXCEPT ![r] =
                      [IdleFrame EXCEPT
                          !.pc = "done", !.force = a.force, !.ran = TRUE,
                          !.status = IF SummaryFields \subseteq DOMAIN IngestResult(a)
                                     THEN 200
                                     ELSE 500]]  \* AttributeError
        /\ running' = 0
        /\ UNCHANGED <<use_simple, _docs, collection, cfg, content, edits, index_file,
                       last_done, qres, bus, chunking>>

\* Somebody rewrites a file of the directory.  The server looks at a file
\* only inside one uninterrupted stretch of a request, so a write during
\* such a stretch is the same as a write just before or just after it.
WriteFile(states) ==
    /\ running = 0
    /\ edits < MaxEdits
    /\ \E p \in Paths, bytes \in states :
         /\ bytes # content[p]
         /\ content' = [content EXCEPT ![p] = bytes]
    /\ edits' = edits + 1
    /\ UNCHANGED <<use_simple, _docs, collection, cfg, index_file, req, running,
                   last_done, qres, bus, chunking>>

EditFile == WriteFile(FileStates)

--------------------------------------------------------------------------
(* EventBus (event_bus.py) and the event_stream generators of             *)
(* GET /events/ingest (app.py 198-216).  Each stream owns the queue that  *)
(* subscribe() made for it, so a queue is named by its stream.            *)

MaxStreams == 2

MaxEvents == 2

Streams == 1..MaxStreams

\* asyncio.Queue() is made with maxsize 0: the queue has no limit
QueueMaxSize == 0

\* Faulty variant: the event is put at the head of the queue
PutNowait_front(queue, event) == <<event>> \o queue

\* q.put_nowait(event) inside try/except (lines 26-30): a full queue raises
\* QueueFull and the event is dropped
PutNowait(queue, event) ==
    IF QueueMaxSize > 0 /\ Len(queue) >= QueueMaxSize THEN queue
    ELSE Append(queue, event)

\* Faulty variant: the queue stays in the set
Discard_kept(subs, q) == subs

\* self._subs.discard(q)
Discard(subs, q) == subs \ {q}

\* The bus with no stream yet.  published, joined and left are bookkeeping
\* for the properties: every event handed to publish, and how many had been
\* handed over when a stream subscribed and when its unsubscribe returned.
NoBus ==
    [_subs |-> {},
     queue |-> [s \in Streams |-> <<>>],
     pc |-> [s \in Streams |-> "new"],
     sent |-> [s \in Streams |-> <<>>],
     beat |-> [s \in Streams |-> FALSE],
     published |-> <<>>,
     joined |-> [s \in Streams |-> 0],
     left |-> [s \in Streams |-> 0]]

NoQuery == [status |-> "none"]

\* No call of _chunk_text on its own is under way
NoCall == [pc |-> "none"]

Init ==
    /\ use_simple \in BOOLEAN
    /\ _docs = <<>>
    /\ collection = <<>>
    /\ cfg = DefaultSettings
    /\ content \in [Paths -> FileStates]
    /\ edits = 0
    /\ index_file = IndexMissing
    /\ req = [r \in Runs |-> IdleFrame]
    /\ running = 0
    /\ last_done = NoRun
    /\ qres = NoQuery
    /\ bus = NoBus
    /\ chunking = NoCall

Next ==
    \/ \E r \in Runs : Ingest(r)
    \/ \E r \in Runs : FileBegin(r)
    \/ \E r \in Runs : Page(r)
    \/ \E r \in Runs : PagesDone(r)
    \/ \E r \in Runs : EmbedReturn(r)
    \/ \E r \in Runs : Upsert(r)
    \/ \E r \in Runs : Commit(r)
    \/ \E r \in Runs : Except(r)
    \/ \E r \in Runs : RunDone(r)
    \/ \E r \in Runs : Respond(r)
    \/ EditFile

Spec == Init /\ [][Next]_vars

--------------------------------------------------------------------------
(* One ingestion request under every setting of the OCR policy, with an   *)
(* OCR model that answers, answers nothing, or fails.                     *)

\* The values of the four settings the OCR policy reads (settings.py 35-39)
OcrSettings ==
    [VLM_PROVIDER : {"openai", "none"}, OPENAI_API_KEY : {None, "sk-key"},
     OCR_VLM_ENABLED : BOOLEAN, OCR_LOW_TEXT_ENABLED : BOOLEAN]

InitOcr ==
    /\ use_simple = TRUE
    /\ _docs = <<>>
    /\ collection = <<>>
    /\ cfg \in OcrSettings
    /\ content \in [Paths -> FileStates]
    /\ edits = 0
    /\ index_file = IndexMissing
    /\ req = [r \in Runs |-> IdleFrame]
    /\ running = 0
    /\ last_done = NoRun
    /\ qres = NoQuery
    /\ bus = NoBus
    /\ chunking = NoCall

NextOcr ==
    \/ Ingest(1)
    \/ FileBegin(1)
    \/ Page(1)
    \/ PagesDone(1)
    \/ EmbedReturn(1)
    \/ Upsert(1)
    \/ Commit(1)
    \/ Except(1)
    \/ RunDone(1)
    \/ Respond(1)

SpecOcr == InitOcr /\ [][NextOcr]_vars

--------------------------------------------------------------------------
(* One ingestion request by a server that finds the persisted index       *)
(* missing or damaged: not there, not parseable, or JSON of another shape. *)

DamagedIndexes == {IndexMissing, IndexCorrupt, IndexNotMapping}

InitIndex ==
    /\ use_simple \in BOOLEAN
    /\ _docs = <<>>
    /\ collection = <<>>
    /\ cfg = DefaultSettings
    /\ content \in [Paths -> FileStates]
    /\ edits = 0
    /\ index_file \in DamagedIndexes
    /\ req = [r \in Runs |-> IdleFrame]
    /\ running = 0
    /\ last_done = NoRun
    /\ qres = NoQuery
    /\ bus = NoBus
    /\ chunking = NoCall

SpecIndex == InitIndex /\ [][NextOcr]_vars

--------------------------------------------------------------------------
(* Ingestion requests over files that change between two versions with    *)
(* text: three pages giving two chunks, and one page giving one chunk.    *)

Versions == {"%PDF text+blank+text", "%PDF text"}

InitReingest ==
    /\ use_simple \in BOOLEAN
    /\ _docs = <<>>
    /\ collection = <<>>
    /\ cfg = DefaultSettings
    /\ content \in [Paths -> Versions]
    /\ edits = 0
    /\ index_file = IndexMissing
    /\ req = [r \in Runs |-> IdleFrame]
    /\ running = 0
    /\ last_done = NoRun
    /\ qres = NoQuery
    /\ bus = NoBus
    /\ chunking = NoCall

NextReingest ==
    \/ \E r \in Runs : Ingest(r)
    \/ \E r \in Runs : FileBegin(r)
    \/ \E r \in Runs : Page(r)
    \/ \E r \in Runs : PagesDone(r)
    \/ \E r \in Runs : EmbedReturn(r)
    \/ \E r \in Runs : Upsert(r)
    \/ \E r \in Runs : Commit(r)
    \/ \E r \in Runs : Except(r)
    \/ \E r \in Runs : RunDone(r)
    \/ \E r \in Runs : Respond(r)
    \/ WriteFile(Versions)

SpecReingest == InitReingest /\ [][NextReingest]_vars

--------------------------------------------------------------------------
(* The store and the retriever on their own: any sequence of upserts and
   queries against one store object.                                      *)

MaxStore == 3

MaxBatch == 1

\* The chunks a caller can hand to upsert: (file, page, chunk index, text)
SampleFiles == {"a.pdf", "b.pdf"}

SampleTexts == {"x", "xy", "xyz"}

SampleChunks ==
    {[rel |-> "a.pdf", page_num |-> 0, i |-> 0, text |-> t] : t \in SampleTexts}
    \cup {[rel |-> "a.pdf", page_num |-> 0, i |-> 1, text |-> t] : t \in SampleTexts}
    \cup {[rel |-> "b.pdf", page_num |-> 0, i |-> 0, text |-> t] : t \in SampleTexts}

SampleMeta(c) ==
    ChunkMeta(c.rel, c.page_num, c.i, _checksum_bytes(c.text), c.text, None, c.text)

Batches == UNION {[1..n -> SampleChunks] : n \in 1..MaxBatch}

Queries == {"q", "wxyz"}

TopKs == {1, 2, 8}

Thresholds == {0, 70, 80}

QueryError == [status |-> "error"]

\* ChromaStore.upsert called with a batch
StoreUpsert ==
    /\ qres = NoQuery
    /\ \E batch \in Batches, eo \in {"ok", "short"}, fail \in BOOLEAN :
         LET documents == [i \in 1..Len(batch) |-> batch[i].text]
             metadatas == [i \in 1..Len(batch) |-> SampleMeta(batch[i])]
             embeddings == LMStudioEmbeddings_embed(documents, eo).value
             out == ChromaStore_upsert(ChunkIds(metadatas), documents, metadatas, embeddings,
                                       IF fail THEN Len(batch) ELSE 0)
         IN  /\ Len(StoreRecords) + Len(batch) <= MaxStore
             /\ StoreBecomes(out)
    /\ UNCHANGED <<use_simple, cfg, content, edits, index_file, req, running, last_done, qres, bus, chunking>>

\* Retriever.query(query, top_k, similarity_threshold)
RetrieverQuery ==
    /\ qres = NoQuery
    /\ \E query \in Queries, top_k \in TopKs, similarity_threshold \in Thresholds,
          eo \in EmbedOutcomes, chat \in ChatOutcomes :
         LET query_emb == LMStudioEmbeddings_embed(<<query>>, eo)
             results == ChromaStore_query(query_emb.value, top_k)
         IN  qres' = IF query_emb.raised \/ results.raised \/ chat = "raise"
                     THEN QueryError
                     ELSE [Retriever_assemble(results, similarity_threshold, chat)
                              EXCEPT !.status = "ok"]
                          @@ [results |-> results, similarity_threshold |-> similarity_threshold,
                              top_k |-> top_k, query_embeddings |-> query_emb.value]
    /\ UNCHANGED <<use_simple, _docs, collection, cfg, content, edits, index_file, req,
                   running, last_done, bus, chunking>>

InitRetrieval ==
    /\ use_simple \in BOOLEAN
    /\ _docs = <<>>
    /\ collection = <<>>
    /\ cfg = DefaultSettings
    /\ content = [p \in Paths |-> Unreadable]
    /\ edits = 0
    /\ index_file = IndexMissing
    /\ req = [r \in Runs |-> IdleFrame]
    /\ running = 0
    /\ last_done = NoRun
    /\ qres = NoQuery
    /\ bus = NoBus
    /\ chunking = NoCall

\* The caller takes the answer of its query
QueryReturned ==
    /\ qres # NoQuery
    /\ qres' = NoQuery
    /\ UNCHANGED <<use_simple, _docs, collection, cfg, content, edits, index_file, req,
                   running, last_done, bus, chunking>>

NextRetrieval == StoreUpsert \/ RetrieverQuery \/ QueryReturned

SpecRetrieval == InitRetrieval /\ [][NextRetrieval]_vars

--------------------------------------------------------------------------
(* The event bus with its publisher and its streams.  On the event loop   *)
(* subscribe, unsubscribe and publish run without suspension (the lock is *)
(* never held across an await), so each is one step.                      *)

OthersUnchanged ==
    UNCHANGED <<use_simple, _docs, collection, cfg, content, edits, index_file, req,
                running, last_done, qres, chunking>>

\* The events of the bus a stream has been given so far, oldest first: those
\* it sent on and those still in its queue
Received(s) == bus.sent[s] \o bus.queue[s]

\* event_stream up to its first await of q.get(): EventBus.subscribe
Subscribe(s) ==
    /\ bus.pc[s] = "new"
    /\ bus' = [bus EXCEPT !._subs = @ \cup {s},
                          !.queue[s] = <<>>,
                          !.pc[s] = "waiting",
                          !.joined[s] = Len(bus.published)]
    /\ OthersUnchanged

\* The queues after the loop of lines 25-30 over the snapshot `subs`
PutAll(queues, subs, event) ==
    [s \in Streams |-> IF s \in subs THEN PutNowait(queues[s], event) ELSE queues[s]]

\* EventBus.publish(event)
Publish ==
    /\ Len(bus.published) < MaxEvents
    /\ LET event == [event |-> "progress", seq |-> Len(bus.published) + 1]
           subs == bus._subs
       IN  bus' = [bus EXCEPT !.queue = PutAll(@, subs, event),
                              !.published = Append(@, event)]
    /\ OthersUnchanged

\* q.get() returns an event and the stream sends it on (app.py 204-206)
StreamGet(s) ==
    /\ bus.pc[s] = "waiting"
    /\ Len(bus.queue[s]) > 0
    /\ bus' = [bus EXCEPT !.queue[s] = Tail(@),
                          !.sent[s] = Append(@, Head(bus.queue[s])),
                          !.beat[s] = FALSE]
    /\ OthersUnchanged

\* wait_for times out on an empty queue and the stream sends a heartbeat
\* (app.py 207-212).  sent keeps the events of the bus only; beat says that
\* the last thing the stream sent was a heartbeat.
StreamHeartbeat(s) ==
    /\ bus.pc[s] = "waiting"
    /\ Len(bus.queue[s]) = 0
    /\ ~bus.beat[s]
    /\ bus' = [bus EXCEPT !.beat[s] = TRUE]
    /\ OthersUnchanged

\* The client goes away: the stream is cancelled, the error is not raised
\* in it yet
StreamCancel(s) ==
    /\ bus.pc[s] = "waiting"
    /\ bus' = [bus EXCEPT !.pc[s] = "cancelled"]
    /\ OthersUnchanged

\* CancelledError reaches the stream: except, then finally with
\* EventBus.unsubscribe(q) (app.py 213-216)
Unsubscribe(s) ==
    /\ bus.pc[s] = "cancelled"
    /\ bus' = [bus EXCEPT !._subs = Discard(@, s),
                          !.pc[s] = "closed",
                          !.left[s] = Len(bus.published)]
    /\ OthersUnchanged

InitBus ==
    /\ use_simple = TRUE
    /\ _docs = <<>>
    /\ collection = <<>>
    /\ cfg = DefaultSettings
    /\ content = [p \in Paths |-> Unreadable]
    /\ edits = 0
    /\ index_file = IndexMissing
    /\ req = [r \in Runs |-> IdleFrame]
    /\ running = 0
    /\ last_done = NoRun
    /\ qres = NoQuery
    /\ bus = NoBus
    /\ chunking = NoCall

NextBus ==
    \/ Publish
    \/ \E s \in Streams : Subscribe(s)
    \/ \E s \in Streams : StreamGet(s)
    \/ \E s \in Streams : StreamHeartbeat(s)
    \/ \E s \in Streams : StreamCancel(s)
    \/ \E s \in Streams : Unsubscribe(s)

SpecBus == InitBus /\ [][NextBus]_vars

--------------------------------------------------------------------------
(* _chunk_text on its own: one call on any short text over letters, a     *)
(* sentence end and a blank, with any chunk_size and a smaller overlap.   *)

MaxText == 6

MaxChunkSize == 4

Chars == {"a", "b", ".", " "}

\* The texts of at most n characters
RECURSIVE TextsUpTo(_)
TextsUpTo(n) ==
    IF n = 0 THEN {""}
    ELSE LET shorter == TextsUpTo(n - 1)
         IN  shorter \cup {t \o c : t \in shorter, c \in Chars}

\* The (chunk_size, overlap) pairs with 0 <= overlap < chunk_size
ChunkParams ==
    {p \in [chunk_size : 1..MaxChunkSize, overlap : 0..(MaxChunkSize - 1)] :
        p.overlap < p.chunk_size}

InitChunk ==
    /\ use_simple = TRUE
    /\ _docs = <<>>
    /\ collection = <<>>
    /\ cfg = DefaultSettings
    /\ content = [p \in Paths |-> Unreadable]
    /\ edits = 0
    /\ index_file = IndexMissing
    /\ req = [r \in Runs |-> IdleFrame]
    /\ running = 0
    /\ last_done = NoRun
    /\ qres = NoQuery
    /\ bus = NoBus
    /\ \E text \in TextsUpTo(MaxText), p \in ChunkParams :
          chunking = [pc |-> "called", text |-> text, chunk_size |-> p.chunk_size,
                      overlap |-> p.overlap, chunks |-> <<>>]

\* The call runs to its return (line 67)
ChunkText ==
    /\ chunking.pc = "called"
    /\ chunking' = [chunking EXCEPT
                       !.pc = "returned",
                       !.chunks = _chunk_text(chunking.text, chunking.chunk_size,
                                              chunking.overlap)]
    /\ UNCHANGED <<use_simple, _docs, collection, cfg, content, edits, index_file, req,
                   running, last_done, qres, bus>>

NextChunk == ChunkText

SpecChunk == InitChunk /\ [][NextChunk]_vars

--------------------------------------------------------------------------
(* Properties of the ingestion run (Spec) *)

\* A chunk of frame a's batch is in the store as the record ingest_paths built
Stored(a, i) ==
    \E k \in 1..Len(StoreRecords) :
        StoreRecords[k] = [id |-> a.ids[i], document |-> a.per_page_chunks[i],
                           metadata |-> a.per_page_meta[i], embedding |-> a.embeddings[i]]

C1_Step(r) ==
    LET a == req[r]
        b == req'[r]
    IN  /\ (a.pc \notin {"idle", "done"} /\ b.pc # "done" /\ b.index # a.index) =>
              /\ a.pc = "commit"
              /\ b.index = [a.index EXCEPT ![CurrentFile(a)] = a.checksum]
              /\ a.checksum \in {_checksum_bytes(bytes) : bytes \in PdfBytes}
              /\ Len(a.per_page_chunks) > 0
              /\ Len(a.embeddings) = Len(a.per_page_chunks)
              /\ \A i \in 1..Len(a.per_page_chunks) : Stored(a, i)
        /\ (b.pc = "except" /\ a.pc \in {"file", "await_embed", "upsert"}) =>
              (b.index = a.index /\ index_file' = index_file)
        /\ a.pc = "except" => (b.index = a.index /\ index_file' = index_file)

C1_Persisted ==
    index_file' # index_file =>
        \E r \in Runs :
            /\ req[r].pc = "commit"
            /\ req'[r].index[CurrentFile(req[r])] = req[r].checksum
            /\ index_file' \in {IndexWritten(req'[r].index), IndexCorrupt}

\* C1: an index entry, in memory or on disk, changes only in the commit step
\* of the file it belongs to, when the embedder has answered one vector per
\* chunk and every chunk of the file is in the store, and it becomes the
\* checksum of the bytes read; a step in which reading, opening, embedding
\* or the upsert fails, and the error handler after it, change no entry.
C1_IndexAdvancesAfterUpsert == [][C1_Persisted /\ \A r \in Runs : C1_Step(r)]_vars

\* C1 witness: a run that had one file fail and then advanced and saved the
\* entry of another
C1_Witness ==
    \E r \in Runs :
        /\ req[r].pc = "file" /\ req[r].fi = 3
        /\ req[r].outcomes = <<"error", "done">>
        /\ index_file.state = "ok"
        /\ index_file.entries[req[r].target_files[2]] # None
        /\ index_file.entries[req[r].target_files[1]] = None

\* The second of two runs in a row: it began when no run was in progress and
\* the run before it had overlapped no other, it asks for files the first
\* asked for, and no file was written since the first began.
SecondRun(a) ==
    /\ a.ran /\ a.pc # "done"
    /\ a.alone
    /\ a.after.valid /\ a.after.alone
    /\ Range(a.target_files) \subseteq a.after.targets
    /\ edits = a.after.edits0

DoesNothing(a) == a.embed_calls = 0 /\ a.upsert_calls = 0 /\ a.files_processed = 0

\* C2 as claimed: the second run on an unchanged directory calls the
\* embedder and the store zero times and processes no file.
C2_SecondRunDoesNothing ==
    \A r \in Runs : SecondRun(req[r]) => DoesNothing(req[r])

\* C2 amended: so it is when the first run had no error and every one of its
\* target files was either processed to the end or skipped as unchanged.
C2_SecondRunAfterCleanRun ==
    \A r \in Runs : (SecondRun(req[r]) /\ req[r].after.clean) => DoesNothing(req[r])

\* C2 witness: a second run that has gone through both files of a directory
\* the first run ingested
C2_Witness ==
    \E r \in Runs :
        /\ SecondRun(req[r]) /\ req[r].after.clean
        /\ req[r].pc = "return"
        /\ req[r].outcomes = <<"unchanged", "unchanged">>

C4_Step(r) ==
    LET a == req[r]
        b == req'[r]
    IN  (a.pc = "page" /\ a.page_num = Len(a.doc) /\ Len(a.per_page_chunks) = 0 /\ b # a) =>
            /\ b.pc = "file" /\ b.fi = a.fi + 1
            /\ b.embed_calls = a.embed_calls /\ b.upsert_calls = a.upsert_calls
            /\ b.files_processed = a.files_processed
            /\ b.pages_processed = a.pages_processed
            /\ b.chunks_upserted = a.chunks_upserted
            /\ b.index = a.index
            /\ b.index[CurrentFile(a)] # a.checksum
            /\ UNCHANGED <<index_file, _docs, collection>>

\* C4: when the pages of a file gave no chunk, the run goes to the next file
\* with no embedder call, no upsert, no counter changed and no index entry
\* changed in memory or on disk; the entry of the file is not its checksum,
\* so the file is not skipped as unchanged later.
C4_ZeroChunkFileNotMarked == [][\A r \in Runs : C4_Step(r)]_vars

\* C4 witness: a run has just left a file that gave no chunk
C4_Witness ==
    \E r \in Runs :
        /\ req[r].pc = "file" /\ req[r].fi > 1
        /\ req[r].outcomes[req[r].fi - 1] = "empty"

ErrorPositions(a) ==
    SelectSeq([i \in 1..Len(a.outcomes) |-> i], LAMBDA i : a.outcomes[i] = "error")

C5_State(a) ==
    /\ Len(a.outcomes) = a.fi - 1
    /\ Len(a.errors) = Len(ErrorPositions(a))
    /\ \A k \in 1..Len(a.errors) :
          /\ a.errors[k].file = a.target_files[ErrorPositions(a)[k]]
          /\ a.errors[k].error \notin {None, ""}
    /\ a.pc = "return" =>
          /\ Len(a.outcomes) = Len(a.target_files)
          /\ \A i \in 1..Len(a.target_files) :
                \E k \in 1..Len(a.published) :
                    /\ a.published[k].event \in {"ingest_file_start", "ingest_file_skipped",
                                                 "ingest_file_error"}
                    /\ a.published[k].file = RelPath(a.target_files[i], BaseDir)

\* C5: every failure of a file is in errors, in order, with the path of the
\* file and a message; the loop goes on with the next file, so that when
\* ingest_paths returns every target file has been taken up; and a request
\* that began its run ends only after ingest_paths has returned.
C5_FailureDoesNotAbort ==
    /\ [](\A r \in Runs : (req[r].ran /\ req[r].pc # "done") => C5_State(req[r]))
    /\ [][\A r \in Runs : (req[r].ran /\ req[r].pc # "done" /\ req'[r].pc = "done")
                             => req[r].pc = "return"]_vars

\* C5 witness: ingest_paths has returned from a run whose first file failed
\* and whose second file was ingested
C5_Witness ==
    \E r \in Runs :
        /\ req[r].pc = "return"
        /\ req[r].outcomes = <<"error", "done">>
        /\ Len(req[r].errors) = 1

\* C6 as claimed: between files and at the end of a run, files_processed is
\* the number of files whose index entry was advanced and saved, and the
\* files in errors are not among the counted ones.
C6_CountersOnlyOnSuccess ==
    \A r \in Runs :
        (req[r].ran /\ req[r].pc \in {"file", "return"}) =>
            /\ req[r].files_processed = Count(req[r].outcomes, "done")
            /\ req[r].files_processed + Len(req[r].errors) <= Len(req[r].outcomes)

\* C7 as claimed: a request that ran ingestion ends with the summary (200)
C7_StructuredSummary ==
    \A r \in Runs : (req[r].pc = "done" /\ req[r].ran) => req[r].status = 200

\* C8 as claimed: a force request whose root exists runs ingestion, and in
\* that run no file is skipped as unchanged
C8_ForceReprocessesAll ==
    \A r \in Runs :
        /\ (req[r].force /\ req[r].pc = "done" /\ req[r].status # 400) => req[r].ran
        /\ (req[r].force /\ req[r].ran) => Count(req[r].outcomes, "unchanged") = 0

\* C9 as claimed: at most one ingestion request is in progress at any time
C9_OneIngestionAtATime == Cardinality({r \in Runs : Active(r)}) <= 1

--------------------------------------------------------------------------
(* Properties of the store and the retriever (SpecRetrieval) *)

Distinct(s) == Cardinality(Range(s)) = Len(s)

\* C3 as claimed: one record per id in the store, count() is the number of
\* distinct ids, and a query answer holds no id twice
C3_OneRecordPerId ==
    /\ Distinct([i \in 1..Len(StoreRecords) |-> StoreRecords[i].id])
    /\ ChromaStore_count = Cardinality(IdsOf(StoreRecords))
    /\ qres.status = "ok" => Distinct(qres.results.ids)

\* The positions of the store's answer whose similarity meets the threshold
Kept(q) ==
    {i \in 1..Len(q.results.distances) :
        100 - q.results.distances[i] >= q.similarity_threshold}

\* The k-th smallest member of a set of positions
Nth(S, k) == CHOOSE i \in S : Cardinality({j \in S : j < i}) = k - 1

C10_Holds(q) ==
    LET keep == Kept(q)
        n == Cardinality(keep)
        res == q.results
    IN  keep # {} =>
          /\ q.chunks_retrieved = n
          /\ Len(q.context) = n
          /\ \A k \in 1..n :
                q.context[k] = [source_file |-> res.metadatas[Nth(keep, k)].source_file,
                                page_number |-> res.metadatas[Nth(keep, k)].page_number,
                                chunk |-> res.documents[Nth(keep, k)]]
          /\ Len(q.citations) = Min(n, MaxCitations)
          /\ \A k \in 1..Len(q.citations) :
                /\ q.citations[k].source = res.metadatas[Nth(keep, k)].source_file
                /\ q.citations[k].page = res.metadatas[Nth(keep, k)].page_number
                /\ q.citations[k].quote = Prefix(res.documents[Nth(keep, k)], QuoteChars)
          /\ Range(q.sources_used) = {SourceTag(res.metadatas[i]) : i \in keep}

\* C10: when some returned record has similarity 1 - distance at or above
\* the threshold, the context is exactly the records at or above it, in the
\* store's order, chunks_retrieved is their number, and the citations and
\* sources_used are made of those records only.
C10_ThresholdFilter == qres.status = "ok" => C10_Holds(qres)

\* C10 witness: an answer built from two of three returned records, one of
\* them exactly at the threshold, the third below it
C10_Witness ==
    /\ qres.status = "ok"
    /\ Len(qres.results.distances) = 3
    /\ Kept(qres) = {1, 2}
    /\ 100 - qres.results.distances[2] = qres.similarity_threshold
    /\ qres.chunks_retrieved = 2


C11_Holds(q) ==
    LET res == q.results
        n == Len(res.distances)
    IN  (n > 0 /\ Kept(q) = {}) =>
          /\ q.chunks_retrieved = n
          /\ Len(q.context) = n
          /\ \A k \in 1..n :
                q.context[k] = [source_file |-> res.metadatas[k].source_file,
                                page_number |-> res.metadatas[k].page_number,
                                chunk |-> res.documents[k]]

\* C11: when the store returned records and every one of them has similarity
\* 1 - distance below the threshold, the context is all the returned records
\* in the store's order and chunks_retrieved is their number; the context is
\* not empty.
C11_FallbackKeepsAll == qres.status = "ok" => C11_Holds(qres)

\* C11 witness: an answer built from two returned records that are both
\* below the threshold
C11_Witness ==
    /\ qres.status = "ok"
    /\ Len(qres.results.distances) = 2
    /\ Kept(qres) = {}
    /\ qres.chunks_retrieved = 2
    /\ Len(qres.context) = 2


--------------------------------------------------------------------------
(* Properties of the page loop (SpecOcr) *)

\* Request r handles a page in this step
PageActs(r) ==
    /\ req[r].pc = "page"
    /\ req[r].page_num < Len(req[r].doc)
    /\ req'[r] # req[r]

\* The native text of the page frame a is at, its number and its trigger
NativeText(a) == Strip(a.doc[a.page_num + 1])

PageNumber(a) == a.page_num + 1

Reason(a) ==
    IF NativeText(a) = "" THEN "no_text_layer"
    ELSE IF cfg.OCR_LOW_TEXT_ENABLED /\ Len(NativeText(a)) < OCR_LOW_TEXT_THRESHOLD_CHARS
         THEN "low_text"
         ELSE None

\* The OCR call gave a text (anything but white space)
OcrGave(ans) == ans \notin {NotCalled, "raise"} /\ Strip(ans) # ""

\* What the step appended to a list of the frame
Added(old, new) == SubSeq(new, Len(old) + 1, Len(new))

C12_Step(r) ==
    LET a == req[r]
        b == req'[r]
        ans == b.ocr_answers[PageNumber(a)]
        rel == RelPath(CurrentFile(a), BaseDir)
    IN  (PageActs(r) /\ Reason(a) # None /\ OcrGave(ans)) =>
          /\ Added(a.per_page_chunks, b.per_page_chunks)
                = _chunk_text(Strip(ans), DefaultChunkSize, DefaultOverlap)
          /\ Len(b.per_page_chunks) > Len(a.per_page_chunks)
          /\ \A k \in Len(a.per_page_meta) + 1 .. Len(b.per_page_meta) :
                /\ b.per_page_meta[k].page_number = PageNumber(a)
                /\ b.per_page_meta[k].ocr_trigger_reason = Reason(a)
                /\ b.per_page_meta[k].vlm_provider = "openai"
                /\ b.per_page_meta[k].vlm_correction_applied
          /\ Added(a.ocr_events, b.ocr_events)
                = <<[file |-> rel, page |-> PageNumber(a), reason |-> Reason(a),
                     provider |-> "openai", skipped |-> FALSE]>>
          /\ Added(a.published, b.published)
                = <<[event |-> "ocr_applied", file |-> rel, page |-> PageNumber(a),
                     reason |-> Reason(a), provider |-> "openai"]>>

\* C12: when a page triggers OCR and the OCR model gives a text, the chunks
\* of the page are the chunks of the OCR text, and the page gets exactly one
\* OCR-applied event, in ocr_events and on the event bus, with the trigger
\* reason and the provider.
C12_OcrTextReplaces == [][\A r \in Runs : C12_Step(r)]_vars

\* C12 witness: the first page has the native text "a.  b" and its chunk is
\* the OCR text "c"
C12_Witness ==
    \E r \in Runs :
        /\ req[r].pc = "page" /\ req[r].page_num = 1
        /\ Strip(req[r].doc[1]) # ""
        /\ req[r].ocr_answers = <<" c ">>
        /\ req[r].per_page_chunks = <<"c">>
        /\ Len(req[r].ocr_events) = 1

C13_Step(r) ==
    LET a == req[r]
        b == req'[r]
        ans == b.ocr_answers[PageNumber(a)]
        rel == RelPath(CurrentFile(a), BaseDir)
    IN  /\ (PageActs(r) /\ NativeText(a) = "" /\ ~OcrGave(ans)) =>
             /\ b.per_page_chunks = a.per_page_chunks
             /\ b.per_page_meta = a.per_page_meta
             /\ Added(a.ocr_events, b.ocr_events)
                   = <<[file |-> rel, page |-> PageNumber(a), reason |-> "no_text_layer",
                        provider |-> None, skipped |-> TRUE]>>
             /\ Added(a.audit, b.audit)
                   = <<[event |-> "ocr_skipped", file |-> rel, page |-> PageNumber(a),
                        reason |-> "no_text_layer", provider |-> None]>>
             /\ b.pc = "page" /\ b.page_num = a.page_num + 1 /\ b.doc = a.doc
             /\ b.errors = a.errors
        /\ (a.pc = "page" /\ b.pc # "page") => a.page_num = Len(a.doc)

\* C13: a page without native text whose OCR gives nothing, fails or is not
\* available adds no chunk to the batch of the file and gets one skip event
\* (in ocr_events and in the run log); the loop goes on to the next page, and
\* the file leaves the page loop only after its last page.
C13_EmptyPageSkipped == [][\A r \in Runs : C13_Step(r)]_vars

\* C13 witness: the OCR call of the blank second page failed, and the third
\* page gave its chunk
C13_Witness ==
    \E r \in Runs :
        /\ req[r].pc = "page" /\ req[r].page_num = 3
        /\ req[r].ocr_answers[2] = "raise"
        /\ Len(req[r].per_page_meta) = 2
        /\ req[r].per_page_meta[1].page_number = 1
        /\ req[r].per_page_meta[2].page_number = 3

C14_Step(r) ==
    LET a == req[r]
        b == req'[r]
        ans == b.ocr_answers[PageNumber(a)]
    IN  (/\ PageActs(r)
         /\ NativeText(a) # ""
         /\ cfg.OCR_LOW_TEXT_ENABLED
         /\ Len(NativeText(a)) < OCR_LOW_TEXT_THRESHOLD_CHARS
         /\ ~OcrGave(ans)) =>
          /\ Added(a.per_page_chunks, b.per_page_chunks)
                = _chunk_text(NativeText(a), DefaultChunkSize, DefaultOverlap)
          /\ Len(b.per_page_chunks) > Len(a.per_page_chunks)
          /\ b.ocr_events = a.ocr_events

\* C14: a page with a short native text (low-text check on) whose OCR gives
\* nothing or fails keeps its native text: its chunks are the chunks of the
\* native text, there is at least one, and the page is not skipped.
C14_ShortTextKept == [][\A r \in Runs : C14_Step(r)]_vars

\* C14 witness: the OCR call of the first page, which has a short native
\* text, failed, and the chunk of the page is its native text
C14_Witness ==
    \E r \in Runs :
        /\ req[r].pc = "page" /\ req[r].page_num = 1
        /\ cfg.OCR_LOW_TEXT_ENABLED
        /\ req[r].ocr_answers = <<"raise">>
        /\ req[r].per_page_chunks = <<"a. b">>

\* A frame without the record of the OCR answers
Forget(a) == [a EXCEPT !.ocr_answers = <<>>]

C15_Step(r) ==
    LET a == req[r]
        b == req'[r]
        ans == b.ocr_answers[PageNumber(a)]
    IN  (PageActs(r) /\ ans = "raise") =>
          /\ b.pc = "page" /\ b.page_num = a.page_num + 1
          /\ b.errors = a.errors /\ b.exc = None
          /\ Forget(b) = Forget(PageStep(a, ""))
          /\ NativeText(a) = "" => b.per_page_chunks = a.per_page_chunks
          /\ NativeText(a) # "" =>
                Added(a.per_page_chunks, b.per_page_chunks)
                   = _chunk_text(NativeText(a), DefaultChunkSize, DefaultOverlap)

\* C15: when the call of the OCR model raises, the page ends as it does
\* when the model answers the empty text: no error is recorded, the page
\* loop goes on, a page without native text is skipped and a page with a
\* short native text keeps it.
C15_OcrFailureIsEmpty == [][\A r \in Runs : C15_Step(r)]_vars

\* C15 witness: a file with a failed OCR call has left the page loop and its
\* chunks are with the embedder
C15_Witness ==
    \E r \in Runs :
        /\ req[r].pc = "await_embed"
        /\ req[r].ocr_answers[1] = "raise"
        /\ Len(req[r].errors) = 0
        /\ Len(req[r].per_page_chunks) > 0


\* C16 as claimed: a chunk record has vlm_correction_applied true, and a
\* provider, exactly when its text is OCR output that replaced the native
\* text of its page
C16_CorrectionFlagExact ==
    \A r \in Runs :
        \A k \in 1..Len(req[r].per_page_meta) :
            LET m == req[r].per_page_meta[k]
                from_ocr == OcrGave(req[r].ocr_answers[m.page_number])
            IN  /\ m.vlm_correction_applied = from_ocr
                /\ (m.vlm_provider # None) = from_ocr


--------------------------------------------------------------------------
(* Properties of the event bus (SpecBus) *)

\* The events published from the moment stream s subscribed until its
\* unsubscribe returned (until now, when it is still subscribed)
PublishedFor(s) ==
    IF bus.pc[s] = "new" THEN <<>>
    ELSE SubSeq(bus.published, bus.joined[s] + 1,
                IF bus.pc[s] = "closed" THEN bus.left[s] ELSE Len(bus.published))

Increasing(evts) == \A i, j \in 1..Len(evts) : i < j => evts[i].seq < evts[j].seq

\* C17: publish is enabled whatever the state of the queues; what a stream
\* has received is a subsequence of the published events, in publish order;
\* and it is exactly the events published while the stream was subscribed,
\* whatever the other streams did with their queues.
C17_PublishFanOut ==
    /\ Len(bus.published) < MaxEvents => ENABLED Publish
    /\ \A s \in Streams :
          /\ Range(Received(s)) \subseteq Range(bus.published)
          /\ Increasing(Received(s))
          /\ Received(s) = PublishedFor(s)

\* C17 witness: one stream holds both events unread in its queue while the
\* other, which subscribed after the first event, has read the second
C17_Witness ==
    /\ Len(bus.published) = 2
    /\ Len(bus.queue[1]) = 2
    /\ bus.joined[2] = 1
    /\ Len(bus.sent[2]) = 1
    /\ Received(2) = <<bus.published[2]>>

\* C18: a stream that was cancelled leaves the bus when the cancellation
\* reaches it (it is closed only with its queue out of _subs), and from then
\* on no publish puts an event into its queue.
C18_UnsubscribeStopsDelivery ==
    /\ [](\A s \in Streams : bus.pc[s] = "closed" => s \notin bus._subs)
    /\ [][\A s \in Streams :
            /\ bus.pc[s] = "cancelled" =>
                  (bus'.pc[s] = "cancelled" \/ (bus'.pc[s] = "closed" /\ s \notin bus'._subs))
            /\ bus.pc[s] = "closed" =>
                  (bus'.pc[s] = "closed" /\ bus'.queue[s] = bus.queue[s])]_vars

\* C18 witness: events were published after the unsubscribe of a stream
\* returned, while another stream was subscribed
C18_Witness ==
    \E s, t \in Streams :
        /\ bus.pc[s] = "closed"
        /\ bus.left[s] < Len(bus.published)
        /\ Len(bus.queue[s]) > 0
        /\ t \in bus._subs
        /\ Len(bus.queue[t]) > Len(bus.queue[s])


--------------------------------------------------------------------------
(* Properties of the events of a run *)

FileOf(e) == IF "file" \in DOMAIN e THEN e.file ELSE None

\* The place of the file of event e in the enumeration of the run
FilePos(a, e) == CHOOSE i \in 1..Len(a.target_files) :
                    RelPath(a.target_files[i], BaseDir) = e.file

\* The place of an event among the events of its file: the start, then the
\* pages in ascending order, then the end of the file
Rank(e) ==
    CASE e.event = "ingest_file_start" -> 0
      [] e.event = "ocr_applied" -> e.page
      [] OTHER -> 1000

Before(a, e, f) ==
    \/ FilePos(a, e) < FilePos(a, f)
    \/ FilePos(a, e) = FilePos(a, f) /\ Rank(e) < Rank(f)

C19_State(a) ==
    LET n == Len(a.published)
        last == IF a.pc = "return" THEN n - 1 ELSE n
    IN  /\ n >= 1
        /\ a.published[1] = [event |-> "ingest_run_start",
                             count_files |-> Len(a.target_files)]
        /\ \A k \in 2..last :
              /\ a.published[k].event \in {"ingest_file_start", "ingest_file_skipped",
                                           "ingest_file_done", "ingest_file_error",
                                           "ocr_applied"}
              /\ \E i \in 1..Len(a.target_files) :
                    /\ i <= a.fi
                    /\ RelPath(a.target_files[i], BaseDir) = a.published[k].file
        /\ \A j, k \in 2..last : j < k => Before(a, a.published[j], a.published[k])
        /\ a.pc = "return" =>
              /\ n >= 2
              /\ a.published[n] =
                    [event |-> "ingest_run_done",
                     files_processed |-> IngestResult(a).files_processed,
                     pages_processed |-> IngestResult(a).pages_processed,
                     chunks_upserted |-> IngestResult(a).chunks_upserted,
                     errors |-> Len(IngestResult(a).errors),
                     ocr_events |-> Len(IngestResult(a).ocr_events)]
              /\ \A i \in 1..Len(a.target_files) :
                    \E k \in 2..last :
                        a.published[k].file = RelPath(a.target_files[i], BaseDir)

\* C19: the events a run publishes begin with ingest_run_start carrying the
\* number of target files; then come the events of the files, file by file
\* in the order of target_files, and within a file the start, the pages in
\* ascending order and the end; when ingest_paths returns, every target file
\* has its events and the last event is ingest_run_done with the counters of
\* the returned result.  Failed files are no exception.
C19_EventsInOrder ==
    \A r \in Runs : (req[r].ran /\ req[r].pc # "done") => C19_State(req[r])

\* C19 witness: a returned run of two files, the first of which failed after
\* OCR was applied to a page and the second of which was ingested
C19_Witness ==
    \E r \in Runs :
        /\ req[r].pc = "return"
        /\ req[r].outcomes = <<"error", "done">>
        /\ \E k \in 1..Len(req[r].published) : req[r].published[k].event = "ocr_applied"
        /\ req[r].published[Len(req[r].published)].event = "ingest_run_done"

KindsOf(evts) == {<<evts[k].event, FileOf(evts[k])>> : k \in 1..Len(evts)}

\* C20 as claimed: the events a run has published and the records it has
\* appended to the run log are the same kinds for the same files
C20_EventsMatchAudit ==
    \A r \in Runs : KindsOf(req[r].published) = KindsOf(req[r].audit)


--------------------------------------------------------------------------
(* Properties of _chunk_text (SpecChunk) *)

\* The text the call works on (line 35) and its sentences (line 40)
Stripped == Strip(chunking.text)

Sentences == IF Len(Stripped) = 0 THEN <<>> ELSE SentenceSplit(Stripped)

\* C21: whatever the text, and whatever chunk_size and overlap with
\* 0 <= overlap < chunk_size, every returned chunk but the last one is at
\* most chunk_size characters long.
C21_ChunksBounded ==
    chunking.pc = "returned" =>
        \A i \in 1..(Len(chunking.chunks) - 1) :
            Len(chunking.chunks[i]) <= chunking.chunk_size

\* C22: when more than one chunk is returned, every chunk after the first
\* begins with the last `overlap` characters of the chunk before it (with
\* the whole of it, when it is shorter than that).
C22_ChunksOverlap ==
    chunking.pc = "returned" =>
        \A i \in 2..Len(chunking.chunks) :
            LET carry == Suffix(chunking.chunks[i - 1], chunking.overlap)
            IN  Prefix(chunking.chunks[i], Len(carry)) = carry

\* C23: a text with no sentence boundary that is longer than chunk_size
\* comes back as its slices of width chunk_size taken every
\* chunk_size - overlap characters, none wider than chunk_size.
C23_FixedWidthFallback ==
    (chunking.pc = "returned" /\ Len(Sentences) = 1
                              /\ Len(Stripped) > chunking.chunk_size) =>
        LET stride == chunking.chunk_size - chunking.overlap
            n == (Len(Stripped) + stride - 1) \div stride
        IN  /\ Len(chunking.chunks) = n
            /\ \A i \in 1..n :
                  /\ Len(chunking.chunks[i]) <= chunking.chunk_size
                  /\ chunking.chunks[i] =
                        SubSeq(Stripped, (i - 1) * stride + 1,
                               Min((i - 1) * stride + chunking.chunk_size, Len(Stripped)))


\* s stands in t at position p
IsAt(s, t, p) == p + Len(s) - 1 <= Len(t) /\ SubSeq(t, p, p + Len(s) - 1) = s

\* The first position from `from` on where s stands in t (0: nowhere)
FirstAt(s, t, from) ==
    LET at == {p \in from..Len(t) : IsAt(s, t, p)}
    IN  IF at = {} THEN 0 ELSE CHOOSE p \in at : \A q \in at : p <= q

\* The sentences stand whole in the chunks from chunk c, position o on, one
\* after the other, each in the same chunk as the one before it or a later one
RECURSIVE InOrder(_, _, _, _)
InOrder(sentences, chunks, c, o) ==
    IF Len(sentences) = 0 THEN TRUE
    ELSE IF c > Len(chunks) THEN FALSE
    ELSE LET p == FirstAt(Head(sentences), chunks[c], o)
         IN  IF p > 0
             THEN InOrder(Tail(sentences), chunks, c, p + Len(Head(sentences)))
             ELSE InOrder(sentences, chunks, c + 1, 1)

\* C30: no text is lost: every sentence of the sentence split stands whole
\* in a returned chunk, and the sentences come in their original order along
\* the chunk sequence.
C30_NoTextLost ==
    chunking.pc = "returned" =>
        /\ \A k \in 1..Len(Sentences) :
              \E i \in 1..Len(chunking.chunks) :
                  FirstAt(Sentences[k], chunking.chunks[i], 1) > 0
        /\ InOrder(Sentences, chunking.chunks, 1, 1)

\* A call that closed two chunks with a carry, one of them longer than
\* chunk_size, and returned three sentences
C30_Witness ==
    /\ chunking.pc = "returned"
    /\ chunking.overlap > 0
    /\ Len(Sentences) >= 3
    /\ Len(chunking.chunks) >= 3
    /\ \E i \in 1..Len(chunking.chunks) : Len(chunking.chunks[i]) > chunking.chunk_size


--------------------------------------------------------------------------
(* Properties of SimpleStore.query (SpecRetrieval) *)

\* The one-to-one maps from the positions of a result to positions of the store
Placements(n, m) ==
    {f \in [1..n -> 1..m] : \A i, j \in 1..n : i # j => f[i] # f[j]}

C24_Holds(q) ==
    LET res == q.results
        n == Len(res.ids)
        dist(p) == _cosine_distance(q.query_embeddings[1], _docs[p].embedding)
    IN  /\ n = Min(q.top_k, Len(_docs))
        /\ Len(res.distances) = n /\ Len(res.documents) = n /\ Len(res.metadatas) = n
        /\ \A i, j \in 1..n : i < j => res.distances[i] <= res.distances[j]
        /\ \E f \in Placements(n, Len(_docs)) :
              /\ \A i \in 1..n :
                    /\ res.ids[i] = _docs[f[i]].id
                    /\ res.documents[i] = _docs[f[i]].document
                    /\ res.metadatas[i] = _docs[f[i]].metadata
                    /\ res.distances[i] = dist(f[i])
              /\ \A p \in 1..Len(_docs) :
                    (\A i \in 1..n : f[i] # p) => \A i \in 1..n : dist(p) >= res.distances[i]

\* C24: SimpleStore.query with limit k answers min(k, stored) records of the
\* store, each with its cosine distance to the query embedding, in
\* non-decreasing order of distance, and no record it leaves out is nearer
\* than one it returns; on an empty store every list is empty.
C24_QueryNearestFirst == (use_simple /\ qres.status = "ok") => C24_Holds(qres)

\* C24 witness: two of three stored records returned, the nearer one first
\* although it was stored later, the farthest one left out
C24_Witness ==
    /\ use_simple /\ qres.status = "ok"
    /\ Len(_docs) = 3 /\ qres.top_k = 2
    /\ qres.results.ids = <<_docs[3].id, _docs[2].id>>
    /\ qres.results.distances[1] < qres.results.distances[2]
    /\ qres.results.distances[2]
          < _cosine_distance(qres.query_embeddings[1], _docs[1].embedding)


--------------------------------------------------------------------------
(* Properties of a run over a missing or damaged index (SpecIndex) *)

\* Position i of the targets of frame a is a file that can be read and opened
Opens(a, i) ==
    content[a.target_files[i]] # Unreadable /\ PdfPages(content[a.target_files[i]]).ok

\* C25: an Ingestor built over a missing, unparseable or wrongly shaped index
\* behaves as over an empty one: it gets built, and the run that follows
\* takes no target file for already ingested and processes each normally (a
\* file that can be read and opened is opened, and no file fails on the
\* index lookup).
C25_DamagedIndexIsEmpty ==
    LET a == req[1]
    IN  /\ a.exc # LookupFailed
        /\ \A i \in 1..Len(a.outcomes) :
              /\ a.outcomes[i] # "unchanged"
              /\ Opens(a, i) =>
                    \E k \in 1..Len(a.published) :
                        /\ a.published[k].event = "ingest_file_start"
                        /\ a.published[k].file = RelPath(a.target_files[i], BaseDir)


--------------------------------------------------------------------------
(* Properties of re-ingestion (SpecReingest) *)

\* The positions of the store's records of file rel
RecordsOf(recs, rel) == {k \in 1..Len(recs) : recs[k].metadata.source_file = rel}

\* Request r ends the ingestion of a file with success, and the store held
\* records of another version of that file when it did
C26_Step(r) ==
    LET a == req[r]
        rel == RelPath(CurrentFile(a), BaseDir)
    IN  (/\ a.pc = "commit"
         /\ req'[r].outcomes = Append(a.outcomes, "done")
         /\ \E k \in RecordsOf(StoreRecords, rel) :
               StoreRecords[k].metadata.checksum # a.checksum)
        => /\ \A k \in RecordsOf(StoreRecords', rel) :
                 StoreRecords'[k].metadata.checksum = a.checksum
           /\ Cardinality(RecordsOf(StoreRecords', rel)) = Len(a.per_page_chunks)

\* C26: when a changed file has been ingested again with success, every
\* record of the store whose source_file is that file carries the checksum
\* of the new version, and the file has as many records as the new version
\* has chunks.
C26_ReingestOverwrites == [][\A r \in Runs : C26_Step(r)]_vars


--------------------------------------------------------------------------
(* Properties of overlapping runs (Spec) *)

\* The files the persisted index has an entry for
Indexed(file) == {p \in Paths : file.state = "ok" /\ file.entries[p] # None}

\* C27: when two runs, each with its own Ingestor, overlap in time on
\* different files, no entry that one run wrote to the persisted index is
\* lost to the other run's rewrite of the whole file: a save that succeeds
\* keeps every entry the file had.
C27_NoEntryLost ==
    [][(index_file.state = "ok" /\ index_file'.state = "ok")
          => Indexed(index_file) \subseteq Indexed(index_file')]_vars


--------------------------------------------------------------------------
(* Properties of the file events of a run (Spec) *)

\* The events that begin or pass over a file, and the one that ends the run
Boundaries == {"ingest_file_start", "ingest_file_skipped", "ingest_run_done"}

Endings == {"ingest_file_done", "ingest_file_error"}

\* The positions after k in evts of the events that end the file begun at k:
\* an ingest_file_done or ingest_file_error of that file with no event of
\* another file and no ingest_run_done in between
EndingsOf(evts, k) ==
    {j \in (k + 1)..Len(evts) :
        /\ evts[j].event \in Endings
        /\ evts[j].file = evts[k].file
        /\ \A i \in (k + 1)..(j - 1) : evts[i].event \notin Boundaries}

\* C28: in every run, each ingest_file_start is followed by exactly one
\* ingest_file_done or ingest_file_error of the same file, before any event
\* of another file and before ingest_run_done.
C28_FileStartIsEnded ==
    \A r \in Runs :
        req[r].pc = "return" =>
            \A k \in 1..Len(req[r].published) :
                req[r].published[k].event = "ingest_file_start" =>
                    Cardinality(EndingsOf(req[r].published, k)) = 1


--------------------------------------------------------------------------
(* Properties of the store write of a file (Spec) *)

\* The upsert step and the error handler of request r
C29_Step(r) ==
    LET a == req[r]
        b == req'[r]
    IN  /\ (a.pc = "upsert" /\ b # a) =>
              /\ Len(a.embeddings) < Len(a.per_page_chunks) => b.pc = "except"
              /\ b.pc = "except" => StoreRecords' = StoreRecords
        /\ (a.pc = "except" /\ b # a) =>
              /\ b.errors = Append(a.errors, [file |-> CurrentFile(a), error |-> a.exc])
              /\ StoreRecords' = StoreRecords

\* C29: the store write of a file is all or nothing: when the embedder
\* answered fewer vectors than chunks, or the upsert fails part-way, the file
\* is recorded as an error and the store holds none of the chunks this run
\* built for it.
C29_StoreWriteAllOrNothing == [][\A r \in Runs : C29_Step(r)]_vars

==========================================================================
